---- MODULE Spec2Model ----
(***************************************************************************)
(* FreelaBR pricing calculator (src/frontend/app.js): the singleton        *)
(* FreelaBRCalculator, its calculate / calculateMonthlyTaxes /             *)
(* calculateProgressiveIR / getTaxInfo methods, and the calls made on it.  *)
(*                                                                         *)
(* JavaScript numbers are modelled as pairs <<n, d>>:                      *)
(*   <<n, d>>, d > 0, n # 0, gcd(|n|, d) = 1   the finite value n/d        *)
(*   <<0, 1>> and <<0, -1>>                    +0 and -0                   *)
(*   <<1, 0>> and <<-1, 0>>                    +Infinity and -Infinity     *)
(*   <<0, 0>>                                  NaN                         *)
(* The special values follow IEEE 754 (x/0, 0/0, Infinity*0, signed        *)
(* zeros).  Finite arithmetic is exact: the binary64 rounding error of     *)
(* each operation (relative 2^-53) is not modelled.                        *)
(***************************************************************************)
EXTENDS Integers, Sequences, FiniteSets

(***************************************************************************)
(* Number arithmetic                                                       *)
(***************************************************************************)
Abs(n) == IF n < 0 THEN -n ELSE n

RECURSIVE GCD(_, _)
GCD(a, b) == IF b = 0 THEN a ELSE GCD(b, a % b)

NaN == <<0, 0>>
PInf == <<1, 0>>
NInf == <<-1, 0>>
PZero == <<0, 1>>
NZero == <<0, -1>>

IsNaN(x) == x[1] = 0 /\ x[2] = 0
IsInf(x) == x[1] # 0 /\ x[2] = 0
IsZero(x) == x[1] = 0 /\ x[2] # 0
IsFinite(x) == x[2] # 0
\* the sign bit of a number that is not NaN
SignBit(x) == x[1] < 0 \/ (x[1] = 0 /\ x[2] < 0)

\* the number n/d of a decimal literal (d > 0)
Dec(n, d) ==
    IF n = 0 THEN PZero
    ELSE LET g == GCD(Abs(n), d) IN <<n \div g, d \div g>>

\* an integer literal
Num(n) == IF n = 0 THEN PZero ELSE <<n, 1>>

SignedInf(neg) == IF neg THEN NInf ELSE PInf
SignedZero(neg) == IF neg THEN NZero ELSE PZero

\* unary minus
Neg(x) ==
    IF IsNaN(x) THEN NaN
    ELSE IF IsZero(x) THEN <<0, -x[2]>>
    ELSE <<-x[1], x[2]>>

\* a * b
Mul(a, b) ==
    IF IsNaN(a) \/ IsNaN(b) THEN NaN
    ELSE IF (IsInf(a) /\ IsZero(b)) \/ (IsZero(a) /\ IsInf(b)) THEN NaN
    ELSE IF IsInf(a) \/ IsInf(b) THEN SignedInf(SignBit(a) # SignBit(b))
    ELSE IF IsZero(a) \/ IsZero(b) THEN SignedZero(SignBit(a) # SignBit(b))
    ELSE LET g1 == GCD(Abs(a[1]), b[2])
             g2 == GCD(Abs(b[1]), a[2])
         IN <<(a[1] \div g1) * (b[1] \div g2), (a[2] \div g2) * (b[2] \div g1)>>

\* a / b
Div(a, b) ==
    IF IsNaN(a) \/ IsNaN(b) THEN NaN
    ELSE IF (IsInf(a) /\ IsInf(b)) \/ (IsZero(a) /\ IsZero(b)) THEN NaN
    ELSE IF IsInf(a) \/ IsZero(b) THEN SignedInf(SignBit(a) # SignBit(b))
    ELSE IF IsZero(a) \/ IsInf(b) THEN SignedZero(SignBit(a) # SignBit(b))
    ELSE Mul(a, IF b[1] < 0 THEN <<-b[2], -b[1]>> ELSE <<b[2], b[1]>>)

\* a + b
Add(a, b) ==
    IF IsNaN(a) \/ IsNaN(b) THEN NaN
    ELSE IF IsInf(a) /\ IsInf(b) THEN (IF a = b THEN a ELSE NaN)
    ELSE IF IsInf(a) THEN a
    ELSE IF IsInf(b) THEN b
    ELSE IF IsZero(a) /\ IsZero(b) THEN (IF a = NZero /\ b = NZero THEN NZero ELSE PZero)
    ELSE IF IsZero(a) THEN b
    ELSE IF IsZero(b) THEN a
    ELSE LET g == GCD(a[2], b[2])
             n == a[1] * (b[2] \div g) + b[1] * (a[2] \div g)
             d == (a[2] \div g) * b[2]
         IN IF n = 0 THEN PZero
            ELSE LET h == GCD(Abs(n), d) IN <<n \div h, d \div h>>

\* a - b
Sub(a, b) == Add(a, Neg(b))

\* a <= b (false when either is NaN; the two zeros are equal)
Le(a, b) ==
    IF IsNaN(a) \/ IsNaN(b) THEN FALSE
    ELSE IF IsInf(a) \/ IsInf(b) THEN a = b \/ a = NInf \/ b = PInf
    ELSE LET g == GCD(Abs(a[2]), Abs(b[2]))
         IN a[1] * (Abs(b[2]) \div g) <= b[1] * (Abs(a[2]) \div g)

\* a < b
Lt(a, b) == Le(a, b) /\ ~Le(b, a)

\* IEEE equality: NaN equals nothing, +0 equals -0
NumEq(a, b) == Le(a, b) /\ Le(b, a)

\* Math.round: the nearest integer, halves towards +Infinity
Round(x) ==
    IF ~IsFinite(x) \/ IsZero(x) THEN x
    ELSE LET q == (2 * x[1] + x[2]) \div (2 * x[2])
         IN IF q = 0 THEN SignedZero(x[1] < 0) ELSE <<q, 1>>

(***************************************************************************)
(* State                                                                   *)
(***************************************************************************)
VARIABLES
    calculator,  \* the singleton FreelaBRCalculator: MEI_DAS_VALUE, MINIMUM_WAGE, taxRegimes
    passed,      \* the input record of the last calculate call, as the caller passed it
    input,       \* that same record after the call returned
    result,      \* what the last calculate call returned
    calls,       \* how many calculate calls have returned
    asked,       \* the key the last getTaxInfo call was given
    info         \* what that call returned

vars == <<calculator, passed, input, result, calls, asked, info>>

(***************************************************************************)
(* constructor                                                             *)
(***************************************************************************)
\* fixed values for 2025
MEI_DAS_VALUE == Dec(8190, 100)
MINIMUM_WAGE == Dec(151800, 100)

taxRegimes ==
    [r \in {"MEI", "PJ_SIMPLES", "PJ_PRESUMIDO", "AUTONOMO"} |->
        CASE r = "MEI" ->
               [name |-> "Microempreendedor Individual (MEI)",
                monthly_cost |-> MEI_DAS_VALUE,
                description |-> "Valor fixo mensal de R$ 81.90 (DAS 2025)",
                limit |-> "Faturamento anual ate R$ 81.000",
                benefits |-> <<"Simples", "Barato", "Poucas obrigacoes">>,
                drawbacks |-> <<"Limite de faturamento", "Apenas 1 funcionario">>]
          [] r = "PJ_SIMPLES" ->
               [name |-> "Simples Nacional - Anexo III",
                percentage |-> "6% a 33%",
                description |-> "Aliquota inicial de 6% sobre faturamento",
                limit |-> "Faturamento anual ate R$ 4,8 milhoes",
                benefits |-> <<"Menos burocracia", "Aliquota progressiva">>,
                drawbacks |-> <<"Aumenta com faturamento", "Obrigacoes acessorias">>]
          [] r = "PJ_PRESUMIDO" ->
               [name |-> "Lucro Presumido",
                percentage |-> "~16,33%",
                description |-> "IR + CSLL + PIS/COFINS + ISS",
                limit |-> "Faturamento anual ate R$ 78 milhoes",
                benefits |-> <<"Previsivel", "Bom para margens altas">>,
                drawbacks |-> <<"Mais complexo", "Mais caro que Simples inicial">>]
          [] r = "AUTONOMO" ->
               [name |-> "Autonomo (Pessoa Fisica)",
                percentage |-> "20% INSS + IR progressivo",
                description |-> "INSS 20% sobre salario minimo + IR progressivo",
                limit |-> "Sem limite",
                benefits |-> <<"Flexivel", "Sem burocracia">>,
                drawbacks |-> <<"IR progressivo alto", "Menos beneficios">>]]

\* new FreelaBRCalculator()
FreelaBRCalculator ==
    [MEI_DAS_VALUE |-> MEI_DAS_VALUE,
     MINIMUM_WAGE |-> MINIMUM_WAGE,
     taxRegimes |-> taxRegimes]

(***************************************************************************)
(* calculateProgressiveIR(monthlyIncome)                                   *)
(***************************************************************************)
\* calculateProgressiveIR with the digits of the last deduction transposed
calculateProgressiveIR_deduction(monthlyIncome) ==
    IF Le(monthlyIncome, Dec(225920, 100)) THEN Num(0)
    ELSE IF Le(monthlyIncome, Dec(282865, 100))
        THEN Sub(Mul(monthlyIncome, Dec(75, 1000)), Dec(16944, 100))
    ELSE IF Le(monthlyIncome, Dec(375105, 100))
        THEN Sub(Mul(monthlyIncome, Dec(15, 100)), Dec(38144, 100))
    ELSE IF Le(monthlyIncome, Dec(466468, 100))
        THEN Sub(Mul(monthlyIncome, Dec(225, 1000)), Dec(66277, 100))
    ELSE Sub(Mul(monthlyIncome, Dec(275, 1000)), Dec(98600, 100))

\* calculateProgressiveIR with exclusive upper bounds
calculateProgressiveIR_exclusive(monthlyIncome) ==
    IF Lt(monthlyIncome, Dec(225920, 100)) THEN Num(0)
    ELSE IF Lt(monthlyIncome, Dec(282865, 100))
        THEN Sub(Mul(monthlyIncome, Dec(75, 1000)), Dec(16944, 100))
    ELSE IF Lt(monthlyIncome, Dec(375105, 100))
        THEN Sub(Mul(monthlyIncome, Dec(15, 100)), Dec(38144, 100))
    ELSE IF Lt(monthlyIncome, Dec(466468, 100))
        THEN Sub(Mul(monthlyIncome, Dec(225, 1000)), Dec(66277, 100))
    ELSE Sub(Mul(monthlyIncome, Dec(275, 1000)), Dec(89600, 100))

calculateProgressiveIR(monthlyIncome) ==
    IF Le(monthlyIncome, Dec(225920, 100)) THEN Num(0)
    ELSE IF Le(monthlyIncome, Dec(282865, 100))
        THEN Sub(Mul(monthlyIncome, Dec(75, 1000)), Dec(16944, 100))
    ELSE IF Le(monthlyIncome, Dec(375105, 100))
        THEN Sub(Mul(monthlyIncome, Dec(15, 100)), Dec(38144, 100))
    ELSE IF Le(monthlyIncome, Dec(466468, 100))
        THEN Sub(Mul(monthlyIncome, Dec(225, 1000)), Dec(66277, 100))
    ELSE Sub(Mul(monthlyIncome, Dec(275, 1000)), Dec(89600, 100))

(***************************************************************************)
(* calculateMonthlyTaxes(monthlyIncome, taxRegime)                         *)
(***************************************************************************)
\* calculateMonthlyTaxes with the MEI case falling through to PJ_SIMPLES
calculateMonthlyTaxes_fallThrough(this, monthlyIncome, taxRegime) ==
    CASE taxRegime = "MEI" -> Mul(monthlyIncome, Dec(6, 100))
      [] taxRegime = "PJ_SIMPLES" -> Mul(monthlyIncome, Dec(6, 100))
      [] taxRegime = "PJ_PRESUMIDO" -> Mul(monthlyIncome, Dec(1633, 10000))
      [] taxRegime = "AUTONOMO" ->
            LET inss == Mul(this.MINIMUM_WAGE, Dec(20, 100))
                ir == calculateProgressiveIR(monthlyIncome)
            IN Add(inss, ir)
      [] OTHER -> Num(0)

calculateMonthlyTaxes(this, monthlyIncome, taxRegime) ==
    CASE taxRegime = "MEI" -> this.MEI_DAS_VALUE
      [] taxRegime = "PJ_SIMPLES" -> Mul(monthlyIncome, Dec(6, 100))
      [] taxRegime = "PJ_PRESUMIDO" -> Mul(monthlyIncome, Dec(1633, 10000))
      [] taxRegime = "AUTONOMO" ->
            LET inss == Mul(this.MINIMUM_WAGE, Dec(20, 100))
                ir == calculateProgressiveIR(monthlyIncome)
            IN Add(inss, ir)
      [] OTHER -> Num(0)

(***************************************************************************)
(* calculate(input)                                                        *)
(***************************************************************************)
\* calculate with the monthly rate divided by the days, not the hours, of a month
calculate_ratePerDay(this, in) ==
    LET \* 1. working days and hours
        workingDaysPerWeek == in.daysPerWeek
        workingWeeksPerYear == Sub(Num(52), in.vacationWeeks)
        workingDaysPerYear == Mul(workingDaysPerWeek, workingWeeksPerYear)
        workingDaysPerMonth == Div(workingDaysPerYear, Num(12))
        workingHoursPerDay == in.hoursPerDay
        workingHoursPerMonth == Mul(workingHoursPerDay, workingDaysPerMonth)
        \* 2. monthly taxes
        monthlyTaxes == calculateMonthlyTaxes(this, in.desiredMonthlyIncome, in.taxRegime)
        \* 3. provisions (13th salary and vacation)
        provisions13th == IF in.include13th
                          THEN Add(Num(0), Div(in.desiredMonthlyIncome, Num(12)))
                          ELSE Num(0)
        monthlyProvisions == IF in.includeVacation
                             THEN Add(provisions13th,
                                      Div(Div(in.desiredMonthlyIncome, Num(3)), Num(12)))
                             ELSE provisions13th
        \* 4. total monthly costs
        totalMonthlyCosts ==
            Add(Add(Add(Add(in.desiredMonthlyIncome, monthlyTaxes), monthlyProvisions),
                    in.monthlyExpenses),
                in.variableExpenses)
        \* 5. profit margin
        profitMargin == Div(in.profitMarginPercentage, Num(100))
        totalMonthlyRate == Div(totalMonthlyCosts, Sub(Num(1), profitMargin))
        \* 6. rates per unit of time
        hourlyRate == Div(totalMonthlyRate, workingDaysPerMonth)
        dailyRate == Mul(hourlyRate, workingHoursPerDay)
        weeklyRate == Mul(dailyRate, workingDaysPerWeek)
        \* 7. suggested project values
        smallProjectValue == Mul(hourlyRate, Num(30))
        mediumProjectValue == Mul(hourlyRate, Num(100))
        largeProjectValue == Mul(hourlyRate, Num(200))
    IN  \* 8. the returned record
        [hourlyRate |-> hourlyRate,
         dailyRate |-> dailyRate,
         weeklyRate |-> weeklyRate,
         monthlyRate |-> totalMonthlyRate,
         totalMonthlyCosts |-> totalMonthlyCosts,
         totalAnnualCosts |-> Mul(totalMonthlyCosts, Num(12)),
         monthlyTaxes |-> monthlyTaxes,
         monthlyProvisions |-> monthlyProvisions,
         netMonthlyIncome |-> in.desiredMonthlyIncome,
         workingHoursPerMonth |-> Round(workingHoursPerMonth),
         workingDaysPerMonth |-> Round(workingDaysPerMonth),
         taxRegime |-> in.taxRegime,
         smallProjectValue |-> smallProjectValue,
         mediumProjectValue |-> mediumProjectValue,
         largeProjectValue |-> largeProjectValue]

\* calculate with the vacation provision in an else branch of the 13th salary
calculate_oneProvision(this, in) ==
    LET \* 1. working days and hours
        workingDaysPerWeek == in.daysPerWeek
        workingWeeksPerYear == Sub(Num(52), in.vacationWeeks)
        workingDaysPerYear == Mul(workingDaysPerWeek, workingWeeksPerYear)
        workingDaysPerMonth == Div(workingDaysPerYear, Num(12))
        workingHoursPerDay == in.hoursPerDay
        workingHoursPerMonth == Mul(workingHoursPerDay, workingDaysPerMonth)
        \* 2. monthly taxes
        monthlyTaxes == calculateMonthlyTaxes(this, in.desiredMonthlyIncome, in.taxRegime)
        \* 3. provisions (13th salary and vacation)
        provisions13th == IF in.include13th
                          THEN Add(Num(0), Div(in.desiredMonthlyIncome, Num(12)))
                          ELSE Num(0)
        monthlyProvisions == IF in.includeVacation /\ ~in.include13th
                             THEN Add(provisions13th,
                                      Div(Div(in.desiredMonthlyIncome, Num(3)), Num(12)))
                             ELSE provisions13th
        \* 4. total monthly costs
        totalMonthlyCosts ==
            Add(Add(Add(Add(in.desiredMonthlyIncome, monthlyTaxes), monthlyProvisions),
                    in.monthlyExpenses),
                in.variableExpenses)
        \* 5. profit margin
        profitMargin == Div(in.profitMarginPercentage, Num(100))
        totalMonthlyRate == Div(totalMonthlyCosts, Sub(Num(1), profitMargin))
        \* 6. rates per unit of time
        hourlyRate == Div(totalMonthlyRate, workingHoursPerMonth)
        dailyRate == Mul(hourlyRate, workingHoursPerDay)
        weeklyRate == Mul(dailyRate, workingDaysPerWeek)
        \* 7. suggested project values
        smallProjectValue == Mul(hourlyRate, Num(30))
        mediumProjectValue == Mul(hourlyRate, Num(100))
        largeProjectValue == Mul(hourlyRate, Num(200))
    IN  \* 8. the returned record
        [hourlyRate |-> hourlyRate,
         dailyRate |-> dailyRate,
         weeklyRate |-> weeklyRate,
         monthlyRate |-> totalMonthlyRate,
         totalMonthlyCosts |-> totalMonthlyCosts,
         totalAnnualCosts |-> Mul(totalMonthlyCosts, Num(12)),
         monthlyTaxes |-> monthlyTaxes,
         monthlyProvisions |-> monthlyProvisions,
         netMonthlyIncome |-> in.desiredMonthlyIncome,
         workingHoursPerMonth |-> Round(workingHoursPerMonth),
         workingDaysPerMonth |-> Round(workingDaysPerMonth),
         taxRegime |-> in.taxRegime,
         smallProjectValue |-> smallProjectValue,
         mediumProjectValue |-> mediumProjectValue,
         largeProjectValue |-> largeProjectValue]

\* calculate with the daily rate of an 8-hour day whatever hoursPerDay is
calculate_eightHourDay(this, in) ==
    LET \* 1. working days and hours
        workingDaysPerWeek == in.daysPerWeek
        workingWeeksPerYear == Sub(Num(52), in.vacationWeeks)
        workingDaysPerYear == Mul(workingDaysPerWeek, workingWeeksPerYear)
        workingDaysPerMonth == Div(workingDaysPerYear, Num(12))
        workingHoursPerDay == in.hoursPerDay
        workingHoursPerMonth == Mul(workingHoursPerDay, workingDaysPerMonth)
        \* 2. monthly taxes
        monthlyTaxes == calculateMonthlyTaxes(this, in.desiredMonthlyIncome, in.taxRegime)
        \* 3. provisions (13th salary and vacation)
        provisions13th == IF in.include13th
                          THEN Add(Num(0), Div(in.desiredMonthlyIncome, Num(12)))
                          ELSE Num(0)
        monthlyProvisions == IF in.includeVacation
                             THEN Add(provisions13th,
                                      Div(Div(in.desiredMonthlyIncome, Num(3)), Num(12)))
                             ELSE provisions13th
        \* 4. total monthly costs
        totalMonthlyCosts ==
            Add(Add(Add(Add(in.desiredMonthlyIncome, monthlyTaxes), monthlyProvisions),
                    in.monthlyExpenses),
                in.variableExpenses)
        \* 5. profit margin
        profitMargin == Div(in.profitMarginPercentage, Num(100))
        totalMonthlyRate == Div(totalMonthlyCosts, Sub(Num(1), profitMargin))
        \* 6. rates per unit of time
        hourlyRate == Div(totalMonthlyRate, workingHoursPerMonth)
        dailyRate == Mul(hourlyRate, Num(8))
        weeklyRate == Mul(dailyRate, workingDaysPerWeek)
        \* 7. suggested project values
        smallProjectValue == Mul(hourlyRate, Num(30))
        mediumProjectValue == Mul(hourlyRate, Num(100))
        largeProjectValue == Mul(hourlyRate, Num(200))
    IN  \* 8. the returned record
        [hourlyRate |-> hourlyRate,
         dailyRate |-> dailyRate,
         weeklyRate |-> weeklyRate,
         monthlyRate |-> totalMonthlyRate,
         totalMonthlyCosts |-> totalMonthlyCosts,
         totalAnnualCosts |-> Mul(totalMonthlyCosts, Num(12)),
         monthlyTaxes |-> monthlyTaxes,
         monthlyProvisions |-> monthlyProvisions,
         netMonthlyIncome |-> in.desiredMonthlyIncome,
         workingHoursPerMonth |-> Round(workingHoursPerMonth),
         workingDaysPerMonth |-> Round(workingDaysPerMonth),
         taxRegime |-> in.taxRegime,
         smallProjectValue |-> smallProjectValue,
         mediumProjectValue |-> mediumProjectValue,
         largeProjectValue |-> largeProjectValue]

\* calculate with the annual costs taken from the rate after the margin
calculate_annualRate(this, in) ==
    LET \* 1. working days and hours
        workingDaysPerWeek == in.daysPerWeek
        workingWeeksPerYear == Sub(Num(52), in.vacationWeeks)
        workingDaysPerYear == Mul(workingDaysPerWeek, workingWeeksPerYear)
        workingDaysPerMonth == Div(workingDaysPerYear, Num(12))
        workingHoursPerDay == in.hoursPerDay
        workingHoursPerMonth == Mul(workingHoursPerDay, workingDaysPerMonth)
        \* 2. monthly taxes
        monthlyTaxes == calculateMonthlyTaxes(this, in.desiredMonthlyIncome, in.taxRegime)
        \* 3. provisions (13th salary and vacation)
        provisions13th == IF in.include13th
                          THEN Add(Num(0), Div(in.desiredMonthlyIncome, Num(12)))
                          ELSE Num(0)
        monthlyProvisions == IF in.includeVacation
                             THEN Add(provisions13th,
                                      Div(Div(in.desiredMonthlyIncome, Num(3)), Num(12)))
                             ELSE provisions13th
        \* 4. total monthly costs
        totalMonthlyCosts ==
            Add(Add(Add(Add(in.desiredMonthlyIncome, monthlyTaxes), monthlyProvisions),
                    in.monthlyExpenses),
                in.variableExpenses)
        \* 5. profit margin
        profitMargin == Div(in.profitMarginPercentage, Num(100))
        totalMonthlyRate == Div(totalMonthlyCosts, Sub(Num(1), profitMargin))
        \* 6. rates per unit of time
        hourlyRate == Div(totalMonthlyRate, workingHoursPerMonth)
        dailyRate == Mul(hourlyRate, workingHoursPerDay)
        weeklyRate == Mul(dailyRate, workingDaysPerWeek)
        \* 7. suggested project values
        smallProjectValue == Mul(hourlyRate, Num(30))
        mediumProjectValue == Mul(hourlyRate, Num(100))
        largeProjectValue == Mul(hourlyRate, Num(200))
    IN  \* 8. the returned record
        [hourlyRate |-> hourlyRate,
         dailyRate |-> dailyRate,
         weeklyRate |-> weeklyRate,
         monthlyRate |-> totalMonthlyRate,
         totalMonthlyCosts |-> totalMonthlyCosts,
         totalAnnualCosts |-> Mul(totalMonthlyRate, Num(12)),
         monthlyTaxes |-> monthlyTaxes,
         monthlyProvisions |-> monthlyProvisions,
         netMonthlyIncome |-> in.desiredMonthlyIncome,
         workingHoursPerMonth |-> Round(workingHoursPerMonth),
         workingDaysPerMonth |-> Round(workingDaysPerMonth),
         taxRegime |-> in.taxRegime,
         smallProjectValue |-> smallProjectValue,
         mediumProjectValue |-> mediumProjectValue,
         largeProjectValue |-> largeProjectValue]

calculate(this, in) ==
    LET \* 1. working days and hours
        workingDaysPerWeek == in.daysPerWeek
        workingWeeksPerYear == Sub(Num(52), in.vacationWeeks)
        workingDaysPerYear == Mul(workingDaysPerWeek, workingWeeksPerYear)
        workingDaysPerMonth == Div(workingDaysPerYear, Num(12))
        workingHoursPerDay == in.hoursPerDay
        workingHoursPerMonth == Mul(workingHoursPerDay, workingDaysPerMonth)
        \* 2. monthly taxes
        monthlyTaxes == calculateMonthlyTaxes(this, in.desiredMonthlyIncome, in.taxRegime)
        \* 3. provisions (13th salary and vacation)
        provisions13th == IF in.include13th
                          THEN Add(Num(0), Div(in.desiredMonthlyIncome, Num(12)))
                          ELSE Num(0)
        monthlyProvisions == IF in.includeVacation
                             THEN Add(provisions13th,
                                      Div(Div(in.desiredMonthlyIncome, Num(3)), Num(12)))
                             ELSE provisions13th
        \* 4. total monthly costs
        totalMonthlyCosts ==
            Add(Add(Add(Add(in.desiredMonthlyIncome, monthlyTaxes), monthlyProvisions),
                    in.monthlyExpenses),
                in.variableExpenses)
        \* 5. profit margin
        profitMargin == Div(in.profitMarginPercentage, Num(100))
        totalMonthlyRate == Div(totalMonthlyCosts, Sub(Num(1), profitMargin))
        \* 6. rates per unit of time
        hourlyRate == Div(totalMonthlyRate, workingHoursPerMonth)
        dailyRate == Mul(hourlyRate, workingHoursPerDay)
        weeklyRate == Mul(dailyRate, workingDaysPerWeek)
        \* 7. suggested project values
        smallProjectValue == Mul(hourlyRate, Num(30))
        mediumProjectValue == Mul(hourlyRate, Num(100))
        largeProjectValue == Mul(hourlyRate, Num(200))
    IN  \* 8. the returned record
        [hourlyRate |-> hourlyRate,
         dailyRate |-> dailyRate,
         weeklyRate |-> weeklyRate,
         monthlyRate |-> totalMonthlyRate,
         totalMonthlyCosts |-> totalMonthlyCosts,
         totalAnnualCosts |-> Mul(totalMonthlyCosts, Num(12)),
         monthlyTaxes |-> monthlyTaxes,
         monthlyProvisions |-> monthlyProvisions,
         netMonthlyIncome |-> in.desiredMonthlyIncome,
         workingHoursPerMonth |-> Round(workingHoursPerMonth),
         workingDaysPerMonth |-> Round(workingDaysPerMonth),
         taxRegime |-> in.taxRegime,
         smallProjectValue |-> smallProjectValue,
         mediumProjectValue |-> mediumProjectValue,
         largeProjectValue |-> largeProjectValue]

(***************************************************************************)
(* getTaxInfo(taxRegime): this.taxRegimes[taxRegime] || {}                 *)
(* A key that taxRegimes does not own is looked up on Object.prototype,    *)
(* whose members are truthy.                                               *)
(***************************************************************************)
ObjectPrototype == {"constructor", "toString", "valueOf", "hasOwnProperty"}

getTaxInfo(this, taxRegime) ==
    IF taxRegime \in DOMAIN this.taxRegimes THEN this.taxRegimes[taxRegime]
    ELSE IF taxRegime \in ObjectPrototype THEN [inherited |-> taxRegime]
    ELSE [k \in {} |-> ""]

(***************************************************************************)
(* The inputs the calls are made with                                      *)
(***************************************************************************)
MaxHoursPerDay == 7
MaxCalls == 2

Regimes == {"MEI", "PJ_SIMPLES", "PJ_PRESUMIDO", "AUTONOMO"}

\* 8 hours a day on 5 days a week, with the 4 weeks of vacation the submit
\* handler fixes; every regime and every combination of the two provisions
FormInputs ==
    [desiredMonthlyIncome : {Num(0), Num(2000), Num(3000), Num(5000)},
     hoursPerDay : {Num(8)},
     daysPerWeek : {Num(5)},
     vacationWeeks : {Num(4)},
     taxRegime : Regimes,
     include13th : BOOLEAN,
     includeVacation : BOOLEAN,
     monthlyExpenses : {Num(200)},
     variableExpenses : {Num(0)},
     profitMarginPercentage : {Num(20)}]

\* other working times within the documented ranges
WorkingTimeInputs ==
    [desiredMonthlyIncome : {Num(3000)},
     hoursPerDay : {Num(h) : h \in 6..MaxHoursPerDay},
     daysPerWeek : {Num(3), Num(5)},
     vacationWeeks : {Num(3), Num(4), Num(52)},
     taxRegime : {"MEI"},
     include13th : {FALSE},
     includeVacation : {FALSE},
     monthlyExpenses : {Num(200)},
     variableExpenses : {Num(0)},
     profitMarginPercentage : {Num(0), Num(20)}]

\* no expenses, and a tax that is a share of the income
ZeroCostInputs ==
    [desiredMonthlyIncome : {Num(0), Num(3000)},
     hoursPerDay : {Num(8)},
     daysPerWeek : {Num(5)},
     vacationWeeks : {Num(4), Num(52)},
     taxRegime : {"PJ_SIMPLES", "PJ_PRESUMIDO"},
     include13th : {TRUE},
     includeVacation : {TRUE},
     monthlyExpenses : {Num(0)},
     variableExpenses : {Num(0)},
     profitMarginPercentage : {Num(0)}]

\* incomes on and next to the bounds of the income-tax brackets
BracketInputs ==
    [desiredMonthlyIncome :
        {Dec(225920, 100), Dec(225921, 100), Dec(282865, 100), Dec(282866, 100),
         Dec(375105, 100), Dec(3751051, 1000), Dec(375106, 100),
         Dec(466468, 100), Dec(466469, 100)},
     hoursPerDay : {Num(8)},
     daysPerWeek : {Num(5)},
     vacationWeeks : {Num(4)},
     taxRegime : {"AUTONOMO"},
     include13th : {FALSE},
     includeVacation : {FALSE},
     monthlyExpenses : {Num(200)},
     variableExpenses : {Num(0)},
     profitMarginPercentage : {Num(20)}]

\* inputs outside the documented ranges: one record with one field changed
\* (the last two with more), as parseFloat and parseInt let through
FormDefault ==
    [desiredMonthlyIncome |-> Num(3000), hoursPerDay |-> Num(8), daysPerWeek |-> Num(5),
     vacationWeeks |-> Num(4), taxRegime |-> "MEI", include13th |-> FALSE,
     includeVacation |-> FALSE, monthlyExpenses |-> Num(200),
     variableExpenses |-> Num(0), profitMarginPercentage |-> Num(20)]

OutOfRangeInputs ==
    {[FormDefault EXCEPT !.desiredMonthlyIncome = Num(-1000)],
     [FormDefault EXCEPT !.monthlyExpenses = Num(-200)],
     [FormDefault EXCEPT !.variableExpenses = Num(-50)],
     [FormDefault EXCEPT !.hoursPerDay = Num(0)],
     [FormDefault EXCEPT !.hoursPerDay = Num(-8)],
     [FormDefault EXCEPT !.daysPerWeek = Num(0)],
     [FormDefault EXCEPT !.daysPerWeek = Num(-5)],
     [FormDefault EXCEPT !.vacationWeeks = Num(53)],
     [FormDefault EXCEPT !.vacationWeeks = Num(52), !.hoursPerDay = Num(-8)],
     [FormDefault EXCEPT !.taxRegime = "OUTRO"],
     [FormDefault EXCEPT !.profitMarginPercentage = Num(100)],
     [FormDefault EXCEPT !.profitMarginPercentage = Num(150)],
     [FormDefault EXCEPT !.profitMarginPercentage = Num(100), !.taxRegime = "PJ_SIMPLES",
                         !.desiredMonthlyIncome = Num(0), !.monthlyExpenses = Num(0)]}

Inputs ==
    FormInputs \cup WorkingTimeInputs \cup ZeroCostInputs \cup BracketInputs
    \cup OutOfRangeInputs

\* the keys getTaxInfo is called with: the select's options and others
RegimeKeys == Regimes \cup {"OUTRO", "constructor"}

(***************************************************************************)
(* Behaviour: the script constructs the calculator and looks up MEI;       *)
(* afterwards calculate and getTaxInfo are called in any order.            *)
(***************************************************************************)
NoRecord == [k \in {} |-> ""]

Init ==
    /\ calculator = FreelaBRCalculator
    /\ passed = NoRecord
    /\ input = NoRecord
    /\ result = NoRecord
    /\ calls = 0
    /\ asked = "MEI"
    /\ info = getTaxInfo(FreelaBRCalculator, "MEI")

\* a call of a calculate that stores the taxes it computed in this.MEI_DAS_VALUE
Calculate_storesTaxes(in) ==
    /\ calls < MaxCalls
    /\ passed' = in
    /\ input' = in
    /\ result' = calculate(calculator, in)
    /\ calls' = calls + 1
    /\ calculator' = [calculator EXCEPT !.MEI_DAS_VALUE = result'.monthlyTaxes]
    /\ UNCHANGED <<asked, info>>

\* const result = calculator.calculate(input)
Calculate(in) ==
    /\ calls < MaxCalls
    /\ passed' = in
    /\ input' = in
    /\ result' = calculate(calculator, in)
    /\ calls' = calls + 1
    /\ UNCHANGED <<calculator, asked, info>>

\* const info = calculator.getTaxInfo(key)
GetTaxInfo(key) ==
    /\ asked' = key
    /\ info' = getTaxInfo(calculator, key)
    /\ UNCHANGED <<calculator, passed, input, result, calls>>

Next ==
    \/ \E in \in Inputs : Calculate(in)
    \/ \E key \in RegimeKeys : GetTaxInfo(key)

Spec == Init /\ [][Next]_vars

(***************************************************************************)
(* Properties                                                              *)
(***************************************************************************)
\* the ranges section 3 of the specification gives for an Input
ValidInput(in) ==
    /\ Le(Num(0), in.desiredMonthlyIncome)
    /\ Lt(Num(0), in.hoursPerDay)
    /\ Le(Num(1), in.daysPerWeek) /\ Le(in.daysPerWeek, Num(7))
    /\ Le(Num(0), in.vacationWeeks) /\ Le(in.vacationWeeks, Num(52))
    /\ in.taxRegime \in Regimes
    /\ Le(Num(0), in.monthlyExpenses)
    /\ Le(Num(0), in.variableExpenses)
    /\ Le(Num(0), in.profitMarginPercentage)
    /\ Lt(in.profitMarginPercentage, Num(100))

\* the typed error result the specification asks for
InvalidInput == [error |-> "InvalidInput"]

\* hoursPerDay * daysPerWeek * (52 - vacationWeeks) / 12, not rounded
UnroundedHours(in) ==
    Div(Mul(Mul(in.hoursPerDay, in.daysPerWeek), Sub(Num(52), in.vacationWeeks)), Num(12))

\* |a - b| <= 1e-6 * |b|
RelClose(a, b) ==
    IF ~IsFinite(a) \/ ~IsFinite(b) THEN FALSE
    ELSE IF IsZero(b) THEN IsZero(a)
    ELSE IF IsZero(a) THEN FALSE
    ELSE LET r == Div(a, b) IN Abs(r[1] - r[2]) <= r[2] \div 1000000

\* |a - b| <= tol
AbsClose(a, b, tol) == Le(Sub(a, b), tol) /\ Le(Sub(b, a), tol)

\* C1 as stated: for every valid input, hourlyRate * workingHoursPerMonth ==
\* monthlyRate within 1e-6 relative tolerance, all three being fields of the Output.
C1_OutputFieldsIdentity ==
    (calls > 0 /\ ValidInput(input)) =>
        RelClose(Mul(result.hourlyRate, result.workingHoursPerMonth), result.monthlyRate)

\* C1 as amended: for every valid input, with w the working hours per month before
\* rounding, the Output's workingHoursPerMonth is w rounded to the nearest integer;
\* when w > 0, hourlyRate * w == monthlyRate within 1e-6 relative tolerance; when
\* w = 0 (vacationWeeks = 52), hourlyRate is not a finite number.
C1_UnroundedHoursIdentity ==
    (calls > 0 /\ ValidInput(input)) =>
        LET w == UnroundedHours(input)
        IN /\ result.workingHoursPerMonth = Round(w)
           /\ Lt(Num(0), w) => RelClose(Mul(result.hourlyRate, w), result.monthlyRate)
           /\ IsZero(w) => ~IsFinite(result.hourlyRate)
           /\ Lt(Num(0), w) \/ IsZero(w)

\* a valid input whose working hours per month are not a whole number has been priced
C1_Witness ==
    /\ calls > 0
    /\ ValidInput(input)
    /\ Lt(Num(0), UnroundedHours(input))
    /\ result.workingHoursPerMonth # UnroundedHours(input)
    /\ IsFinite(result.hourlyRate) /\ ~IsZero(result.hourlyRate)

\* C2: a call with profitMarginPercentage >= 100 yields InvalidInput, never an
\* Output whose rates are infinite, NaN or negative.
C2_MarginAtLeast100IsInvalidInput ==
    (calls > 0 /\ Le(Num(100), input.profitMarginPercentage)) =>
        /\ result = InvalidInput
        /\ \A f \in {"hourlyRate", "dailyRate", "weeklyRate", "monthlyRate"} :
              f \in DOMAIN result => IsFinite(result[f]) /\ ~SignBit(result[f])

\* an input that C3 names: a negative amount, no hours or days, more than 52
\* weeks of vacation, or an unknown regime
OutOfRange(in) ==
    \/ Lt(in.desiredMonthlyIncome, Num(0))
    \/ Lt(in.monthlyExpenses, Num(0))
    \/ Lt(in.variableExpenses, Num(0))
    \/ Le(in.hoursPerDay, Num(0))
    \/ Le(in.daysPerWeek, Num(0))
    \/ Lt(Num(52), in.vacationWeeks)
    \/ in.taxRegime \notin Regimes

\* C3: a call with an out-of-range input reports InvalidInput and produces no Output.
C3_OutOfRangeIsInvalidInput ==
    (calls > 0 /\ OutOfRange(input)) => result = InvalidInput

\* the incomes the calls are made with
Incomes == {in.desiredMonthlyIncome : in \in Inputs}

\* the inputs of the model that differ from in at most in a lower or equal income
LowerIncomeInputs(in) ==
    {other \in {[in EXCEPT !.desiredMonthlyIncome = x] : x \in Incomes} :
        other \in Inputs /\ Le(other.desiredMonthlyIncome, in.desiredMonthlyIncome)}

\* a whole number of cents
IsCents(x) == IsFinite(x) /\ (IsZero(x) \/ 100 % x[2] = 0)

\* C4 as stated: for valid inputs that differ only in desiredMonthlyIncome,
\* income1 <= income2 gives hourlyRate(income1) <= hourlyRate(income2); read, as
\* in the specification, as "a higher income never gives a lower hourlyRate", so
\* that a rate that is NaN on both sides is no violation.
C4_HourlyRateMonotone ==
    (calls > 0 /\ ValidInput(input)) =>
        \A other \in LowerIncomeInputs(input) :
            ~Lt(result.hourlyRate, calculate(calculator, other).hourlyRate)

\* C4 as amended: for valid inputs that differ only in desiredMonthlyIncome, both
\* incomes whole numbers of cents and income1 <= income2: when the working hours
\* per month are positive, hourlyRate(income1) <= hourlyRate(income2); when they
\* are 0 (vacationWeeks = 52), neither hourlyRate is a finite number.
C4_HourlyRateMonotoneOnCents ==
    (calls > 0 /\ ValidInput(input) /\ IsCents(input.desiredMonthlyIncome)) =>
        \A other \in LowerIncomeInputs(input) :
            IsCents(other.desiredMonthlyIncome) =>
                LET lower == calculate(calculator, other).hourlyRate
                IN IF Lt(Num(0), UnroundedHours(input))
                   THEN Le(lower, result.hourlyRate)
                   ELSE ~IsFinite(lower) /\ ~IsFinite(result.hourlyRate)

\* an AUTONOMO income one cent above a bracket bound has been priced, and the
\* income on the bound is an input too
C4_Witness ==
    /\ calls > 0
    /\ ValidInput(input)
    /\ input.taxRegime = "AUTONOMO"
    /\ input.desiredMonthlyIncome = Dec(375106, 100)
    /\ [input EXCEPT !.desiredMonthlyIncome = Dec(375105, 100)] \in LowerIncomeInputs(input)
    /\ IsFinite(result.hourlyRate)

\* the bracket table as the specification gives it: inclusive upper bound, rate,
\* deduction; the last bracket has no upper bound
Brackets ==
    <<[bound |-> Dec(225920, 100), rate |-> Num(0), deduction |-> Num(0)],
      [bound |-> Dec(282865, 100), rate |-> Dec(75, 1000), deduction |-> Dec(16944, 100)],
      [bound |-> Dec(375105, 100), rate |-> Dec(15, 100), deduction |-> Dec(38144, 100)],
      [bound |-> Dec(466468, 100), rate |-> Dec(225, 1000), deduction |-> Dec(66277, 100)],
      [bound |-> PInf, rate |-> Dec(275, 1000), deduction |-> Dec(89600, 100)]>>

\* the income tax the Output's monthlyTaxes holds for an AUTONOMO input
ResultIR == Sub(result.monthlyTaxes, Mul(MINIMUM_WAGE, Dec(20, 100)))

\* C5: at each bracket bound b, calculateProgressiveIR(b) and
\* calculateProgressiveIR(b + 0.01) less the next bracket's tax on one cent differ
\* by at most 0.01.
C5_ContinuousAtBounds ==
    (calls > 0 /\ input.taxRegime = "AUTONOMO") =>
        \A i \in 1..4 :
            input.desiredMonthlyIncome = Add(Brackets[i].bound, Dec(1, 100)) =>
                AbsClose(Sub(ResultIR, Mul(Brackets[i + 1].rate, Dec(1, 100))),
                         calculateProgressiveIR(Brackets[i].bound),
                         Dec(1, 100))

\* income * rate - deduction of the first bracket whose bound is >= income
BracketIR(income) ==
    LET i == CHOOSE k \in 1..5 :
                 /\ Le(income, Brackets[k].bound)
                 /\ \A j \in 1..(k - 1) : ~Le(income, Brackets[j].bound)
    IN Sub(Mul(income, Brackets[i].rate), Brackets[i].deduction)

\* C6: for AUTONOMO and income >= 0, monthlyTaxes is MINIMUM_WAGE * 0.20 plus the
\* tax of the first bracket whose inclusive bound is >= income; income 2000 gives
\* 303.60 and income 3000 gives 372.16.
C6_AutonomoTaxes ==
    (calls > 0 /\ input.taxRegime = "AUTONOMO" /\ Le(Num(0), input.desiredMonthlyIncome)) =>
        /\ NumEq(result.monthlyTaxes,
                 Add(Mul(MINIMUM_WAGE, Dec(20, 100)), BracketIR(input.desiredMonthlyIncome)))
        /\ input.desiredMonthlyIncome = Num(2000) => result.monthlyTaxes = Dec(30360, 100)
        /\ input.desiredMonthlyIncome = Num(3000) => result.monthlyTaxes = Dec(37216, 100)

\* an AUTONOMO income exactly on the bound 2828.65 has been taxed in the lower bracket
C6_Witness ==
    /\ calls > 0
    /\ input.taxRegime = "AUTONOMO"
    /\ input.desiredMonthlyIncome = Dec(282865, 100)
    /\ result.monthlyTaxes = Add(Dec(30360, 100), Dec(4270875, 100000))

\* C7: for MEI and every income >= 0, monthlyTaxes is 81.90.
C7_MeiTaxIsFixed ==
    (calls > 0 /\ input.taxRegime = "MEI" /\ Le(Num(0), input.desiredMonthlyIncome)) =>
        result.monthlyTaxes = Dec(8190, 100)

\* a MEI input with an income of 5000 has been priced after an earlier call
C7_Witness ==
    /\ calls > 1
    /\ input.taxRegime = "MEI"
    /\ input.desiredMonthlyIncome = Num(5000)
    /\ result.monthlyTaxes = Dec(8190, 100)

\* the worked example of the specification
Scenario ==
    [desiredMonthlyIncome |-> Num(3000), hoursPerDay |-> Num(6), daysPerWeek |-> Num(5),
     vacationWeeks |-> Num(4), taxRegime |-> "MEI", include13th |-> FALSE,
     includeVacation |-> FALSE, monthlyExpenses |-> Num(200),
     variableExpenses |-> Num(0), profitMarginPercentage |-> Num(20)]

\* C8: for every valid input the Output is what the reference algorithm gives:
\* monthlyProvisions = (income/12 if include13th) + (income/36 if includeVacation),
\* totalMonthlyCosts = income + monthlyTaxes + monthlyProvisions + both expenses,
\* monthlyRate = totalMonthlyCosts / (1 - margin/100), hourlyRate = monthlyRate /
\* (hoursPerDay * daysPerWeek * (52 - vacationWeeks) / 12); and the worked example
\* gives 20 days, 120 hours, taxes 81.90, costs 3281.90, monthlyRate 4102.375 and
\* an hourlyRate of 34.19 to the cent.
C8_ReferenceAlgorithm ==
    (calls > 0 /\ ValidInput(input)) =>
        LET income == input.desiredMonthlyIncome
            provisions ==
                Add(IF input.include13th THEN Div(income, Num(12)) ELSE Num(0),
                    IF input.includeVacation THEN Div(income, Num(36)) ELSE Num(0))
            costs ==
                Add(Add(Add(Add(income, result.monthlyTaxes), provisions),
                        input.monthlyExpenses),
                    input.variableExpenses)
            rate == Div(costs, Sub(Num(1), Div(input.profitMarginPercentage, Num(100))))
            hourly == Div(rate, UnroundedHours(input))
        IN /\ result.monthlyProvisions = provisions
           /\ result.totalMonthlyCosts = costs
           /\ result.monthlyRate = rate
           /\ result.hourlyRate = hourly
           /\ input = Scenario =>
                 /\ result.workingDaysPerMonth = Num(20)
                 /\ result.workingHoursPerMonth = Num(120)
                 /\ result.monthlyTaxes = Dec(8190, 100)
                 /\ result.totalMonthlyCosts = Dec(328190, 100)
                 /\ result.monthlyRate = Dec(4102375, 1000)
                 /\ AbsClose(result.hourlyRate, Dec(3419, 100), Dec(5, 1000))

\* a valid input with both provisions switched on has been priced to a finite rate
C8_Witness ==
    /\ calls > 0
    /\ ValidInput(input)
    /\ input.include13th /\ input.includeVacation
    /\ input.desiredMonthlyIncome = Num(3000)
    /\ result.monthlyProvisions = Dec(1000, 3)
    /\ IsFinite(result.hourlyRate)

\* C9: no calculate call changes the calculator's reference data or its input
\* record, and every call returns what a freshly constructed calculator returns
\* for the same input, whatever calls came before.
C9_NoSideEffects ==
    /\ calculator = FreelaBRCalculator
    /\ calls > 0 =>
          /\ input = passed
          /\ result = calculate(FreelaBRCalculator, passed)

\* a second calculate call, for a MEI input, has returned after a getTaxInfo call
\* for an unknown key
C9_Witness ==
    /\ calls = 2
    /\ info = NoRecord
    /\ input.taxRegime = "MEI"
    /\ result = calculate(FreelaBRCalculator, passed)

\* C10: whenever calculate returns an Output, dailyRate is hourlyRate * hoursPerDay
\* and weeklyRate is dailyRate * daysPerWeek, as the very same number.
C10_DailyAndWeeklyRates ==
    calls > 0 =>
        /\ result.dailyRate = Mul(result.hourlyRate, input.hoursPerDay)
        /\ result.weeklyRate = Mul(result.dailyRate, input.daysPerWeek)

\* an input of 7 hours on 3 days a week has been priced to finite rates
C10_Witness ==
    /\ calls > 0
    /\ input.hoursPerDay = Num(7)
    /\ input.daysPerWeek = Num(3)
    /\ IsFinite(result.dailyRate) /\ ~IsZero(result.dailyRate)
    /\ IsFinite(result.weeklyRate)

\* C11: whenever calculate returns an Output, totalAnnualCosts is 12 times the
\* totalMonthlyCosts of the same Output, the cost before the margin, not rounded.
C11_AnnualCosts ==
    calls > 0 =>
        /\ result.totalAnnualCosts = Mul(result.totalMonthlyCosts, Num(12))
        /\ ValidInput(input) =>
              result.totalMonthlyCosts =
                  Mul(result.monthlyRate,
                      Sub(Num(1), Div(input.profitMarginPercentage, Num(100))))

\* a valid input with a margin of 20 and costs that are not a whole amount has
\* been priced: 3281.90 a month, 39382.80 a year
C11_Witness ==
    /\ calls > 0
    /\ ValidInput(input)
    /\ input.profitMarginPercentage = Num(20)
    /\ result.totalMonthlyCosts = Dec(328190, 100)
    /\ result.totalAnnualCosts = Dec(3938280, 100)

\* C12: the regime table has exactly one entry for each of the four regimes and
\* no other key, and no call changes it; getTaxInfo returns the regime's entry for
\* each of the four keys and an empty record for any other key.
C12_RegimeTableLookup ==
    /\ DOMAIN calculator.taxRegimes = Regimes
    /\ calculator.taxRegimes = taxRegimes
    /\ \A r, q \in Regimes : r # q => calculator.taxRegimes[r] # calculator.taxRegimes[q]
    /\ info = IF asked \in Regimes THEN calculator.taxRegimes[asked] ELSE NoRecord

====
